---- MODULE Spec2Model ----
(***************************************************************************)
(* A model of tw_stock.py: the incremental synchronisation of daily quotes *)
(* of the TWSE and OTC markets into the sqlite tables quote and stock.     *)
(*                                                                         *)
(* Representation.                                                         *)
(*  - A Python str is a sequence of one-character strings.                 *)
(*  - A date is the number of days since QUOTE_EPOCH (the sqlite adapter   *)
(*    stores ISO dates, whose text order is the order of the dates).       *)
(*  - int | None is a record [null, val]; the str | None that              *)
(*    _safe_decimal returns is a record [kind, neg, coef, scale] standing  *)
(*    for the decimal (-1)^neg * coef / 10^scale, for NaN, for sNaN or     *)
(*    for None (kind "NULL").                                              *)
(*  - A table is the set of its rows.  db is what the shared connection    *)
(*    sees (its open transaction included), disk what is committed.        *)
(***************************************************************************)
EXTENDS Integers, Sequences, FiniteSets, TLC

(***************************************************************************)
(* Bounds of the model.                                                    *)
(***************************************************************************)
\* number of days, from QUOTE_EPOCH on, that a sync may be asked for
MaxDay == 2
\* largest number of rows in a fetched report
MaxRows == 2
\* number of top-level operations that write (syncs, refreshes) in a behaviour
MaxCalls == 3

\* datetime.date(2007, 4, 23), as day number
QUOTE_EPOCH == 0

Dates == QUOTE_EPOCH..(QUOTE_EPOCH + MaxDay - 1)
Markets == {"TWSE", "OTC"}

(***************************************************************************)
(* Text helpers.                                                           *)
(***************************************************************************)
Digits == {"0", "1", "2", "3", "4", "5", "6", "7", "8", "9"}
Whitespace == {" ", "\t", "\n", "\r"}

DigitValue(c) ==
    CASE c = "0" -> 0 [] c = "1" -> 1 [] c = "2" -> 2 [] c = "3" -> 3 [] c = "4" -> 4
      [] c = "5" -> 5 [] c = "6" -> 6 [] c = "7" -> 7 [] c = "8" -> 8 [] c = "9" -> 9

StartsWith(text, prefix) ==
    /\ Len(text) >= Len(prefix)
    /\ SubSeq(text, 1, Len(prefix)) = prefix

\* str.replace(sub, ""): every occurrence of sub removed, left to right
RECURSIVE Remove(_, _)
Remove(text, sub) ==
    IF text = <<>> THEN <<>>
    ELSE IF StartsWith(text, sub) THEN Remove(SubSeq(text, Len(sub) + 1, Len(text)), sub)
    ELSE <<Head(text)>> \o Remove(Tail(text), sub)

RECURSIVE LStrip(_)
LStrip(text) ==
    IF text # <<>> /\ Head(text) \in Whitespace THEN LStrip(Tail(text)) ELSE text

RECURSIVE RStrip(_)
RStrip(text) ==
    IF text # <<>> /\ text[Len(text)] \in Whitespace
    THEN RStrip(SubSeq(text, 1, Len(text) - 1))
    ELSE text

\* str.strip()
Strip(text) == RStrip(LStrip(text))

\* m = re.match('=Q([^Q]*)Q', text); text = m.group(1) if m   (Q a quote character)
Unquote(text, q) ==
    IF /\ Len(text) >= 3
       /\ text[1] = "="
       /\ text[2] = q
       /\ \E j \in 3..Len(text) : text[j] = q
    THEN LET j == CHOOSE j \in 3..Len(text) :
                      text[j] = q /\ \A k \in 3..(j - 1) : text[k] # q
         IN  SubSeq(text, 3, j - 1)
    ELSE text

clean(text) ==
    LET t1 == Unquote(text, "\"")
        t2 == Unquote(t1, "'")
        t3 == Remove(t2, <<" ">>)
        t4 == Remove(t3, <<",">>)
        t5 == Remove(t4, <<"\t">>)
        t6 == Remove(t5, <<"&", "n", "b", "s", "p", ";">>)
        t7 == Remove(t6, <<"u2295">>)   \* the character CIRCLED PLUS
        t8 == Remove(t7, <<"u2299">>)   \* the character CIRCLED DOT OPERATOR
    IN  Strip(t8)

AllDigits(text) == \A i \in 1..Len(text) : text[i] \in Digits

RECURSIVE NatOf(_)
NatOf(digits) ==
    IF digits = <<>> THEN 0
    ELSE 10 * NatOf(SubSeq(digits, 1, Len(digits) - 1)) + DigitValue(digits[Len(digits)])

Signed(text) == text # <<>> /\ Head(text) \in {"+", "-"}
Unsigned(text) == IF Signed(text) THEN Tail(text) ELSE text

(***************************************************************************)
(* int | None                                                              *)
(***************************************************************************)
IntNone == [null |-> TRUE, val |-> 0]
IntOf(n) == [null |-> FALSE, val |-> n]

\* int(value) on a stripped text of digits and signs; ValueError gives None
_safe_int(text) ==
    LET value == clean(text)
        body == Unsigned(value)
    IN  IF value = <<>> THEN IntNone
        ELSE IF body # <<>> /\ AllDigits(body)
        THEN IntOf(IF Head(value) = "-" THEN 0 - NatOf(body) ELSE NatOf(body))
        ELSE IntNone

(***************************************************************************)
(* decimal.Decimal, kept as str                                            *)
(***************************************************************************)
DecNone == [kind |-> "NULL", neg |-> FALSE, coef |-> 0, scale |-> 0]
DecSpecial(k, n) == [kind |-> k, neg |-> n, coef |-> 0, scale |-> 0]

DotCount(text) == Cardinality({i \in 1..Len(text) : text[i] = "."})

\* str(decimal.Decimal(value)) for a sign, digits and at most one point, or a NaN;
\* decimal.InvalidOperation gives "invalid"
to_decimal(value) ==
    LET body == Unsigned(value)
        neg == value # <<>> /\ Head(value) = "-"
        digits == Remove(body, <<".">>)
    IN  IF body = <<"N", "a", "N">> THEN DecSpecial("NaN", neg)
        ELSE IF body = <<"s", "N", "a", "N">> THEN DecSpecial("sNaN", neg)
        ELSE IF digits # <<>> /\ AllDigits(digits) /\ DotCount(body) <= 1
        THEN [kind |-> "num", neg |-> neg, coef |-> NatOf(digits),
              scale |-> IF DotCount(body) = 0 THEN 0
                        ELSE Len(body) - (CHOOSE i \in 1..Len(body) : body[i] = ".")]
        ELSE DecSpecial("invalid", FALSE)

_safe_decimal(text) ==
    LET value == clean(text)
    IN  IF value \in {<<>>, <<"-", "-", "-">>, <<"-", "-">>} THEN DecNone
        ELSE IF to_decimal(value).kind = "invalid" THEN DecNone
        ELSE to_decimal(value)

\* float(s) <= 0 for a str produced by to_decimal: "yes", "no", or "raise" (ValueError)
FloatLeqZero(d) ==
    CASE d.kind = "num" -> IF d.neg \/ d.coef = 0 THEN "yes" ELSE "no"
      [] d.kind = "NaN" -> "no"
      [] OTHER -> "raise"

(***************************************************************************)
(* is_id                                                                   *)
(***************************************************************************)
is_id(stock_id) ==
    IF Len(stock_id) <= 0 THEN FALSE
    ELSE IF ~(stock_id[1] \in Digits) THEN FALSE
    ELSE IF Len(stock_id) > 4 /\ StartsWith(stock_id, <<"7">>) THEN FALSE
    ELSE IF ~StartsWith(stock_id, <<"0">>) THEN TRUE
    ELSE \/ StartsWith(stock_id, <<"0", "0">>)
         \/ StartsWith(stock_id, <<"0", "1">>)
         \/ StartsWith(stock_id, <<"0", "2">>)

(***************************************************************************)
(* Row validation.  A csv row is a sequence of texts; row[i] of the source *)
(* is row[i + 1] here.  The result is the candidate handed to the INSERT,  *)
(* or "skip" (continue), or "raise" (an exception leaves the attempt).     *)
(***************************************************************************)
NoCandidate(k) ==
    [kind |-> k, ID |-> <<>>, name |-> <<>>, volume |-> IntNone, turnover |-> IntNone,
     open |-> DecNone, high |-> DecNone, low |-> DecNone, close |-> DecNone,
     delta |-> DecNone, tickcount |-> IntNone]

\* float(opening) <= 0 or float(high) <= 0 or float(low) <= 0 or float(closing) <= 0,
\* evaluated left to right: "yes", "no" or "raise"
RECURSIVE AnyFloatLeqZero(_)
AnyFloatLeqZero(prices) ==
    IF prices = <<>> THEN "no"
    ELSE IF FloatLeqZero(Head(prices)) = "no" THEN AnyFloatLeqZero(Tail(prices))
    ELSE FloatLeqZero(Head(prices))

\* twse_candidate reading the change from the column of its sign, row[9]
twse_candidate_DeltaFromSign(row) ==
    IF Len(row) < 11 THEN NoCandidate("skip")
    ELSE
    LET stock_id == clean(row[1])
        name == clean(row[2])
        volume == _safe_int(row[3])
        opening == _safe_decimal(row[6])
        turnover == _safe_int(row[5])
        high == _safe_decimal(row[7])
        low == _safe_decimal(row[8])
        closing == _safe_decimal(row[9])
        tickcount == _safe_int(row[4])
        delta == IF clean(row[10]) = <<"X">> THEN DecNone ELSE _safe_decimal(row[10])
    IN  IF ~is_id(stock_id) THEN NoCandidate("skip")
        ELSE IF volume.null \/ volume.val <= 0 \/ opening = DecNone THEN NoCandidate("skip")
        ELSE IF \/ turnover.null
                \/ high = DecNone
                \/ low = DecNone
                \/ closing = DecNone
                \/ tickcount.null
        THEN NoCandidate("skip")
        ELSE IF AnyFloatLeqZero(<<opening, high, low, closing>>) = "yes"
        THEN NoCandidate("skip")
        ELSE IF AnyFloatLeqZero(<<opening, high, low, closing>>) = "raise"
        THEN NoCandidate("raise")
        ELSE [kind |-> "row", ID |-> stock_id, name |-> name, volume |-> volume,
              turnover |-> turnover, open |-> opening, high |-> high, low |-> low,
              close |-> closing, delta |-> delta, tickcount |-> tickcount]

twse_candidate(row) ==
    IF Len(row) < 11 THEN NoCandidate("skip")
    ELSE
    LET stock_id == clean(row[1])
        name == clean(row[2])
        volume == _safe_int(row[3])
        opening == _safe_decimal(row[6])
        turnover == _safe_int(row[5])
        high == _safe_decimal(row[7])
        low == _safe_decimal(row[8])
        closing == _safe_decimal(row[9])
        tickcount == _safe_int(row[4])
        delta == IF clean(row[10]) = <<"X">> THEN DecNone ELSE _safe_decimal(row[11])
    IN  IF ~is_id(stock_id) THEN NoCandidate("skip")
        ELSE IF volume.null \/ volume.val <= 0 \/ opening = DecNone THEN NoCandidate("skip")
        ELSE IF \/ turnover.null
                \/ high = DecNone
                \/ low = DecNone
                \/ closing = DecNone
                \/ tickcount.null
        THEN NoCandidate("skip")
        ELSE IF AnyFloatLeqZero(<<opening, high, low, closing>>) = "yes"
        THEN NoCandidate("skip")
        ELSE IF AnyFloatLeqZero(<<opening, high, low, closing>>) = "raise"
        THEN NoCandidate("raise")
        ELSE [kind |-> "row", ID |-> stock_id, name |-> name, volume |-> volume,
              turnover |-> turnover, open |-> opening, high |-> high, low |-> low,
              close |-> closing, delta |-> delta, tickcount |-> tickcount]

otc_candidate(row) ==
    IF Len(row) < 11 THEN NoCandidate("skip")
    ELSE
    LET stock_id == clean(row[1])
        name == clean(row[2])
        closing == _safe_decimal(row[3])
        delta == _safe_decimal(row[4])
        volume == _safe_int(row[9])
        opening == _safe_decimal(row[5])
        high == _safe_decimal(row[6])
        low == _safe_decimal(row[7])
        turnover == _safe_int(row[10])
        tickcount == _safe_int(row[11])
    IN  IF ~is_id(stock_id) THEN NoCandidate("skip")
        ELSE IF \/ closing = DecNone
                \/ volume.null
                \/ volume.val <= 0
                \/ opening = DecNone
                \/ high = DecNone
                \/ low = DecNone
                \/ turnover.null
                \/ tickcount.null
        THEN NoCandidate("skip")
        ELSE IF AnyFloatLeqZero(<<opening, high, low, closing>>) = "yes"
        THEN NoCandidate("skip")
        ELSE IF AnyFloatLeqZero(<<opening, high, low, closing>>) = "raise"
        THEN NoCandidate("raise")
        ELSE [kind |-> "row", ID |-> stock_id, name |-> name, volume |-> volume,
              turnover |-> turnover, open |-> opening, high |-> high, low |-> low,
              close |-> closing, delta |-> delta, tickcount |-> tickcount]

Candidate(market, row) ==
    IF market = "TWSE" THEN twse_candidate(row) ELSE otc_candidate(row)

(***************************************************************************)
(* The tables.  A quote row carries one field that is no column: by, the   *)
(* market whose sync wrote the row (a history field, read by no operation).*)
(***************************************************************************)
MarketId(market) == IF market = "TWSE" THEN <<"T", "W", "S", "E">> ELSE <<"O", "T", "C">>
MarkerIds == {MarketId(m) : m \in Markets}

EmptyDb == [quote |-> {}, stock |-> {}, stock_future |-> {}, twse |-> {}]

\* PRIMARY KEY (ID, date) of quote
QuoteKeyTaken(q, id, date) == \E r \in q : r.ID = id /\ r.date = date

\* PRIMARY KEY (ID) of stock
StockKeyTaken(s, id) == \E r \in s : r.ID = id

\* SELECT 1 FROM quote WHERE ID = market AND date = date
HasMarker(q, market, date) == \E r \in q : r.ID = MarketId(market) /\ r.date = date

\* DELETE FROM quote WHERE (ID IN (SELECT ID FROM stock WHERE market = ?) OR ID = ?)
\*                     AND date = ?
ForceDelete(d, market, date) ==
    LET tagged == {s.ID : s \in {x \in d.stock : x.market = market}}
    IN  [d EXCEPT !.quote =
            {r \in @ : ~((r.ID \in tagged \/ r.ID = MarketId(market)) /\ r.date = date)}]

QuoteRow(c, date, market) ==
    [ID |-> c.ID, date |-> date, volume |-> c.volume, turnover |-> c.turnover,
     open |-> c.open, high |-> c.high, low |-> c.low, close |-> c.close,
     delta |-> c.delta, tickcount |-> c.tickcount, by |-> market]

\* InsertQuote as INSERT OR REPLACE: the row of the key is overwritten
InsertQuote_OrReplace(d, r) ==
    [ok |-> TRUE,
     db |-> [d EXCEPT !.quote = {x \in @ : ~(x.ID = r.ID /\ x.date = r.date)} \cup {r}]]

\* INSERT INTO quote (...) VALUES (...): sqlite3.IntegrityError when the key is taken
\* (the statement is undone, the open transaction keeps the earlier writes)
InsertQuote(d, r) ==
    IF QuoteKeyTaken(d.quote, r.ID, r.date)
    THEN [ok |-> FALSE, db |-> d]
    ELSE [ok |-> TRUE, db |-> [d EXCEPT !.quote = @ \cup {r}]]

\* INSERT OR IGNORE INTO stock (ID, name, market, mindate, maxdate)
InsertOrIgnoreStock(d, id, name, market, date) ==
    IF StockKeyTaken(d.stock, id)
    THEN [rowcount |-> 0, db |-> d]
    ELSE [rowcount |-> 1,
          db |-> [d EXCEPT !.stock = @ \cup {[ID |-> id, name |-> name, market |-> market,
                                              mindate |-> date, maxdate |-> date]}]]

\* UPDATE stock SET name = ?, market = ?, maxdate = ? WHERE ID = ?
UpdateStock(d, id, name, market, date) ==
    [d EXCEPT !.stock =
        {IF s.ID = id THEN [s EXCEPT !.name = name, !.market = market, !.maxdate = date]
                      ELSE s : s \in @}]

\* _upsert_market_marker without its UPDATE of maxdate
_upsert_market_marker_NoUpdate(d, market, date, count) ==
    LET d1 == InsertOrIgnoreStock(d, MarketId(market), MarketId(market), market, date).db
        marker == QuoteRow([NoCandidate("row") EXCEPT !.ID = MarketId(market),
                                                      !.volume = IntOf(count)],
                           date, market)
    IN  [d1 EXCEPT !.quote =
            {r \in @ : ~(r.ID = marker.ID /\ r.date = marker.date)} \cup {marker}]

_upsert_market_marker(d, market, date, count) ==
    LET d1 == InsertOrIgnoreStock(d, MarketId(market), MarketId(market), market, date).db
        \* UPDATE stock SET maxdate = ? WHERE ID = ?
        d2 == [d1 EXCEPT !.stock =
                  {IF s.ID = MarketId(market) THEN [s EXCEPT !.maxdate = date] ELSE s
                      : s \in @}]
        marker == QuoteRow([NoCandidate("row") EXCEPT !.ID = MarketId(market),
                                                      !.volume = IntOf(count)],
                           date, market)
    IN  \* INSERT OR REPLACE INTO quote (ID, date, volume)
        [d2 EXCEPT !.quote =
            {r \in @ : ~(r.ID = marker.ID /\ r.date = marker.date)} \cup {marker}]

\* one accepted row: the INSERT into quote, then the stock row
InsertCandidate(d, market, date, c) ==
    LET ins == InsertQuote(d, QuoteRow(c, date, market))
        inserted == InsertOrIgnoreStock(ins.db, c.ID, c.name, market, date)
    IN  IF ~ins.ok THEN [ok |-> FALSE, db |-> d]
        ELSE IF inserted.rowcount <= 0
        THEN [ok |-> TRUE, db |-> UpdateStock(inserted.db, c.ID, c.name, market, date)]
        ELSE [ok |-> TRUE, db |-> inserted.db]

\* the for loop over the rows of one report, each row given as its candidate, from
\* the store d with count rows inserted
RECURSIVE ProcessRows(_, _, _, _, _)
ProcessRows(d, market, date, cands, count) ==
    IF cands = <<>> THEN [raised |-> FALSE, db |-> d, count |-> count]
    ELSE LET c == Head(cands)
         IN  CASE c.kind = "skip" -> ProcessRows(d, market, date, Tail(cands), count)
               [] c.kind = "raise" -> [raised |-> TRUE, db |-> d, count |-> count]
               [] OTHER ->
                    LET w == InsertCandidate(d, market, date, c)
                    IN  IF w.ok THEN ProcessRows(w.db, market, date, Tail(cands), count + 1)
                        ELSE [raised |-> TRUE, db |-> d, count |-> count]

\* the body of the try: of one attempt: fetch, rows, marker; raised when an exception
\* left it, with the store as the exception left it
AttemptOutcome(d, market, date, fetch) ==
    IF ~fetch.ok THEN [raised |-> TRUE, db |-> d, count |-> 0]
    ELSE LET p == ProcessRows(d, market, date, fetch.cands, 0)
         IN  IF p.raised THEN p
             ELSE [raised |-> FALSE, db |-> _upsert_market_marker(p.db, market, date, p.count),
                   count |-> p.count]

(***************************************************************************)
(* Inputs: the reports a fetch may return.                                 *)
(***************************************************************************)
T_2330 == <<"2", "3", "3", "0">>
T_name == <<"T", "S", "M", "C">>

Good ==
    [id |-> T_2330, name |-> T_name, volume |-> <<"1", ",", "0", "0", "0">>,
     tickcount |-> <<"7">>, turnover |-> <<"5", "0", "0">>, open |-> <<"5">>,
     high |-> <<"6">>, low |-> <<"4", ".", "5", "0">>, close |-> <<"5">>,
     sign |-> <<"+">>, delta |-> <<"1", ".", "5">>]

\* a second payload for the same security that the validation accepts as well
NaNOpen == [Good EXCEPT !.open = <<"N", "a", "N">>]

SampleFields ==
    { Good,
      NaNOpen,
      [Good EXCEPT !.volume = <<"0">>],
      [Good EXCEPT !.open = <<"-", "-">>],
      [Good EXCEPT !.close = <<"0", ".", "0", "0">>] }

TwseLayout(f) ==
    <<f.id, f.name, f.volume, f.tickcount, f.turnover, f.open, f.high, f.low, f.close,
      f.sign, f.delta>>

OtcLayout(f) ==
    <<f.id, f.name, f.close, f.delta, f.open, f.high, f.low, <<>>, f.volume,
      f.turnover, f.tickcount>>

SampleRows(market) ==
    {IF market = "TWSE" THEN TwseLayout(f) ELSE OtcLayout(f) : f \in SampleFields}

Reports(market) == UNION {[1..n -> SampleRows(market)] : n \in 0..MaxRows}

\* the rows of a report as the loop meets them: each row with its validation done
\* (the validation reads the row alone)
Validated(market, rows) == [i \in 1..Len(rows) |-> Candidate(market, rows[i])]

\* what _http_get gives an attempt of a market's sync: an exception, or a report
Fetches ==
    [market \in Markets |->
        {[ok |-> FALSE, cands |-> <<>>]}
            \cup {[ok |-> TRUE, cands |-> Validated(market, r)] : r \in Reports(market)}]

(***************************************************************************)
(* State.                                                                  *)
(***************************************************************************)
VARIABLES
    db,     \* the tables as the shared connection sees them
    disk,   \* the committed tables
    conn,   \* _DB_CONN is not None
    call,   \* the single-day sync in progress, with its retry counter
    run,    \* the continue_update_quotes loop in progress
    last,   \* how the latest single-day sync ended
    calls,  \* number of writing operations started so far
    cli,    \* the invocation of main in progress
    http,   \* what _http_get has done in this process
    probe   \* a function under test: its argument and its result

vars == <<db, disk, conn, call, run, last, calls, cli, http, probe>>

\* what the operations of the store neither read nor write
aux == <<cli, http, probe>>

NoCall == [active |-> FALSE, market |-> "TWSE", date |-> QUOTE_EPOCH, force |-> FALSE,
           retry |-> 0]
NoRun == [active |-> FALSE, current |-> QUOTE_EPOCH, today |-> QUOTE_EPOCH,
          twse_from |-> QUOTE_EPOCH, otc_from |-> QUOTE_EPOCH, step |-> "TWSE"]
Ended(market, date, force, outcome) ==
    [market |-> market, date |-> date, force |-> force, outcome |-> outcome]
\* main is not running
NoCli == [active |-> FALSE, argv |-> "none", pc |-> "none", exit |-> "none",
          discarded |-> FALSE]
\* no request has been made, warnings are reported
NoHttp == [warnings_disabled |-> FALSE, log |-> <<>>]
NoProbe == [arg |-> <<>>, ret |-> "none"]

Init ==
    /\ db = EmptyDb
    /\ disk = EmptyDb
    /\ conn = FALSE
    /\ call = NoCall
    /\ run = NoRun
    /\ last = Ended("TWSE", QUOTE_EPOCH, FALSE, "none")
    /\ calls = 0
    /\ cli = NoCli
    /\ http = NoHttp
    /\ probe = NoProbe

Idle == ~call.active /\ ~run.active

\* a top-level operation may start: nothing is in progress, and the bound allows it
CanStart == Idle /\ calls < MaxCalls

(***************************************************************************)
(* The single-day sync: its entry, then one step per attempt.              *)
(***************************************************************************)
\* SyncBegin without the test of the marker row
SyncBegin_NoMarkerTest(market, date, force) ==
    /\ conn' = TRUE
    /\ calls < MaxCalls
    /\ calls' = calls + 1
    /\ db' = IF force THEN ForceDelete(db, market, date) ELSE db
    /\ call' = [active |-> TRUE, market |-> market, date |-> date,
                force |-> force, retry |-> 0]
    /\ UNCHANGED <<disk, last>>

\* lines 274-285 / 370-381: get_db, the marker test, the forced DELETE
SyncBegin(market, date, force) ==
    /\ conn' = TRUE
    /\ IF HasMarker(db.quote, market, date) /\ ~force
       THEN /\ last' = Ended(market, date, force, "noop")
            /\ UNCHANGED <<db, disk, call, calls>>
       ELSE /\ calls < MaxCalls
            /\ calls' = calls + 1
            /\ db' = IF force THEN ForceDelete(db, market, date) ELSE db
            /\ call' = [active |-> TRUE, market |-> market, date |-> date,
                        force |-> force, retry |-> 0]
            /\ UNCHANGED <<disk, last>>

update_daily_twse_quotes(date, force) ==
    /\ CanStart
    /\ SyncBegin("TWSE", date, force)
    /\ UNCHANGED run

update_daily_otc_quotes(date, force) ==
    /\ CanStart
    /\ SyncBegin("OTC", date, force)
    /\ UNCHANGED run

\* Attempt with "if retry >= 3: raise": a fourth attempt follows the third failure
Attempt_FourTries(fetch) ==
    /\ call.active
    /\ LET out == AttemptOutcome(db, call.market, call.date, fetch)
       IN  IF ~out.raised
           THEN /\ db' = out.db
                /\ disk' = out.db
                /\ call' = NoCall
                /\ last' = Ended(call.market, call.date, call.force, "committed")
                /\ UNCHANGED run
           ELSE /\ db' = out.db
                /\ UNCHANGED disk
                /\ IF call.retry >= 3
                   THEN /\ call' = NoCall
                        /\ last' = Ended(call.market, call.date, call.force, "raised")
                        /\ run' = [run EXCEPT !.active = FALSE]
                   ELSE /\ call' = [call EXCEPT !.retry = @ + 1]
                        /\ UNCHANGED <<last, run>>
    /\ UNCHANGED <<conn, calls>>

\* Attempt whose third failure is swallowed by the caller's loop, which goes on
Attempt_SkipAndContinue(fetch) ==
    /\ call.active
    /\ LET out == AttemptOutcome(db, call.market, call.date, fetch)
       IN  IF ~out.raised
           THEN /\ db' = out.db
                /\ disk' = out.db
                /\ call' = NoCall
                /\ last' = Ended(call.market, call.date, call.force, "committed")
                /\ UNCHANGED run
           ELSE /\ db' = out.db
                /\ UNCHANGED disk
                /\ IF call.retry >= 2
                   THEN /\ call' = NoCall
                        /\ last' = Ended(call.market, call.date, call.force, "raised")
                        /\ UNCHANGED run
                   ELSE /\ call' = [call EXCEPT !.retry = @ + 1]
                        /\ UNCHANGED <<last, run>>
    /\ UNCHANGED <<conn, calls>>

\* one pass of "for retry in range(3)": commit and break, or the except clause
Attempt(fetch) ==
    /\ call.active
    /\ LET out == AttemptOutcome(db, call.market, call.date, fetch)
       IN  IF ~out.raised
           THEN /\ db' = out.db
                /\ disk' = out.db
                /\ call' = NoCall
                /\ last' = Ended(call.market, call.date, call.force, "committed")
                /\ UNCHANGED run
           ELSE /\ db' = out.db
                /\ UNCHANGED disk
                /\ IF call.retry >= 2
                   THEN /\ call' = NoCall
                        /\ last' = Ended(call.market, call.date, call.force, "raised")
                        \* the exception leaves the while of continue_update_quotes
                        /\ run' = [run EXCEPT !.active = FALSE]
                   ELSE /\ call' = [call EXCEPT !.retry = @ + 1]
                        /\ UNCHANGED <<last, run>>
    /\ UNCHANGED <<conn, calls>>

(***************************************************************************)
(* continue_update_quotes                                                  *)
(***************************************************************************)
Max(S) == CHOOSE x \in S : \A y \in S : y <= x
Min2(a, b) == IF a <= b THEN a ELSE b

\* NextPending starting one day after QUOTE_EPOCH on an empty table
NextPending_LateEpoch(q, market) ==
    LET dates == {r.date : r \in {x \in q : x.ID = MarketId(market)}}
    IN  IF dates = {} THEN QUOTE_EPOCH + 1 ELSE Max(dates) + 1

\* NextPending that resumes at the last marker date, not the day after it
NextPending_NoIncrement(q, market) ==
    LET dates == {r.date : r \in {x \in q : x.ID = MarketId(market)}}
    IN  IF dates = {} THEN QUOTE_EPOCH ELSE Max(dates)

\* SELECT MAX(date) FROM quote WHERE ID = market, then the next date
NextPending(q, market) ==
    LET dates == {r.date : r \in {x \in q : x.ID = MarketId(market)}}
    IN  IF dates = {} THEN QUOTE_EPOCH ELSE Max(dates) + 1

Hours == {14, 15}
Nows == [day : Dates, hour : Hours]

\* continue_update_quotes without "if now.hour < 15: today -= 1 day"
continue_update_quotes_NoCutoff(now) ==
    /\ CanStart
    /\ conn' = TRUE
    /\ LET today == now.day
           twse_from == NextPending(db.quote, "TWSE")
           otc_from == NextPending(db.quote, "OTC")
           current == Min2(twse_from, otc_from)
       IN  run' = IF current > today THEN NoRun
                  ELSE [active |-> TRUE, current |-> current, today |-> today,
                        twse_from |-> twse_from, otc_from |-> otc_from, step |-> "TWSE"]
    /\ UNCHANGED <<db, disk, call, last, calls>>

\* lines 466-479: up to the first test of the while, which may end the run at once
continue_update_quotes(now) ==
    /\ CanStart
    /\ conn' = TRUE
    /\ LET today == IF now.hour < 15 THEN now.day - 1 ELSE now.day
           twse_from == NextPending(db.quote, "TWSE")
           otc_from == NextPending(db.quote, "OTC")
           current == Min2(twse_from, otc_from)
       IN  run' = IF current > today THEN NoRun
                  ELSE [active |-> TRUE, current |-> current, today |-> today,
                        twse_from |-> twse_from, otc_from |-> otc_from, step |-> "TWSE"]
    /\ UNCHANGED <<db, disk, call, last, calls>>

\* ContinueStep with "if current > twse_from" and "if current > otc_from"
ContinueStep_StrictFrom ==
    /\ run.active
    /\ ~call.active
    /\ IF run.current > run.today
       THEN /\ run' = NoRun
            /\ UNCHANGED <<db, disk, conn, call, last, calls>>
       ELSE IF run.step = "TWSE"
       THEN /\ run' = [run EXCEPT !.step = "OTC"]
            /\ IF run.current > run.twse_from
               THEN SyncBegin("TWSE", run.current, FALSE)
               ELSE UNCHANGED <<db, disk, conn, call, last, calls>>
       ELSE /\ run' = [run EXCEPT !.step = "TWSE", !.current = @ + 1]
            /\ IF run.current > run.otc_from
               THEN SyncBegin("OTC", run.current, FALSE)
               ELSE UNCHANGED <<db, disk, conn, call, last, calls>>

\* ContinueStep without the tests of twse_from and otc_from: both syncs at every date
ContinueStep_BothMarkets ==
    /\ run.active
    /\ ~call.active
    /\ IF run.current > run.today
       THEN /\ run' = NoRun
            /\ UNCHANGED <<db, disk, conn, call, last, calls>>
       ELSE IF run.step = "TWSE"
       THEN /\ run' = [run EXCEPT !.step = "OTC"]
            /\ SyncBegin("TWSE", run.current, FALSE)
       ELSE /\ run' = [run EXCEPT !.step = "TWSE", !.current = @ + 1]
            /\ SyncBegin("OTC", run.current, FALSE)

\* lines 479-484: one call of a market's sync in the body of the while, or its end
ContinueStep ==
    /\ run.active
    /\ ~call.active
    /\ IF run.current > run.today
       THEN /\ run' = NoRun
            /\ UNCHANGED <<db, disk, conn, call, last, calls>>
       ELSE IF run.step = "TWSE"
       THEN /\ run' = [run EXCEPT !.step = "OTC"]
            /\ IF run.current >= run.twse_from
               THEN SyncBegin("TWSE", run.current, FALSE)
               ELSE UNCHANGED <<db, disk, conn, call, last, calls>>
       ELSE /\ run' = [run EXCEPT !.step = "TWSE", !.current = @ + 1]
            /\ IF run.current >= run.otc_from
               THEN SyncBegin("OTC", run.current, FALSE)
               ELSE UNCHANGED <<db, disk, conn, call, last, calls>>

(***************************************************************************)
(* stock_future_codes: the derivative codes, rebuilt from the listing page.*)
(* A tr of the page is the sequence of the texts of its td cells; a NULL   *)
(* column of stock_future is the empty text (a code ends in "F").          *)
(***************************************************************************)
\* lines 551-571: one tr, on the table sf
FutureRow(sf, row) ==
    IF Len(row) < 11 THEN sf
    ELSE
    LET code == row[1] \o <<"F">>
        stock_id == row[3]
        multiplier == row[11]
        exists == \E r \in sf : r.ID = stock_id
    IN  IF ~is_id(stock_id) THEN sf
        ELSE IF multiplier = <<"1", "0", "0">>
        THEN IF exists
             THEN {IF r.ID = stock_id THEN [r EXCEPT !.mini_future = code] ELSE r : r \in sf}
             ELSE sf \cup {[ID |-> stock_id, future |-> <<>>, mini_future |-> code]}
        ELSE IF exists
             THEN {IF r.ID = stock_id THEN [r EXCEPT !.future = code] ELSE r : r \in sf}
             ELSE sf \cup {[ID |-> stock_id, future |-> code, mini_future |-> <<>>]}

RECURSIVE FutureRows(_, _)
FutureRows(sf, page) ==
    IF page = <<>> THEN sf ELSE FutureRows(FutureRow(sf, Head(page)), Tail(page))

ListingRow(code, id, multiplier) ==
    <<code, <<>>, id, <<>>, <<>>, <<>>, <<>>, <<>>, <<>>, <<>>, multiplier>>

Listings ==
    { <<>>,
      <<ListingRow(<<"C", "D">>, T_2330, <<"2", "0", "0", "0">>),
        ListingRow(<<"Q", "F">>, T_2330, <<"1", "0", "0">>)>> }

\* what _http_get gives stock_future_codes: an exception, or the rows of the page
ListingFetches ==
    {[ok |-> FALSE, page |-> <<>>]} \cup {[ok |-> TRUE, page |-> l] : l \in Listings}

stock_future_codes(fetch) ==
    /\ CanStart
    /\ calls' = calls + 1
    /\ IF ~fetch.ok
       THEN UNCHANGED <<db, disk, conn>>
       ELSE /\ conn' = TRUE
            /\ db' = [db EXCEPT !.stock_future = FutureRows({}, fetch.page)]
            /\ disk' = db'
    /\ UNCHANGED <<call, run, last>>

(***************************************************************************)
(* update_monthly_twse_history: the index history of one month.  A date of *)
(* the twse table is the triple <<year, month, day>>.                      *)
(***************************************************************************)
\* the texts between the occurrences of the character sep
RECURSIVE Split(_, _)
Split(text, sep) ==
    IF \A i \in 1..Len(text) : text[i] # sep THEN <<text>>
    ELSE LET i == CHOOSE i \in 1..Len(text) :
                      text[i] = sep /\ \A k \in 1..(i - 1) : text[k] # sep
         IN  <<SubSeq(text, 1, i - 1)>> \o Split(SubSeq(text, i + 1, Len(text)), sep)

DaysInMonth(year, month) ==
    IF month = 2
    THEN IF (year % 4 = 0 /\ year % 100 # 0) \/ year % 400 = 0 THEN 29 ELSE 28
    ELSE IF month \in {4, 6, 9, 11} THEN 30 ELSE 31

NoDate == <<0, 0, 0>>

\* chinese_date, NoDate standing for its ValueError (and that of datetime.date)
chinese_date(expression) ==
    LET matches == {sep \in {".", "/", "-"} :
                       LET parts == Split(expression, sep)
                       IN  /\ Len(parts) = 3
                           /\ \A i \in 1..3 : parts[i] # <<>> /\ AllDigits(parts[i])}
    IN  IF matches = {} THEN NoDate
        ELSE LET parts == Split(expression, CHOOSE sep \in matches : TRUE)
                 year == NatOf(parts[1]) + 1911
                 month == NatOf(parts[2])
                 day == NatOf(parts[3])
             IN  IF /\ year <= 9999
                    /\ month \in 1..12
                    /\ day \in 1..DaysInMonth(year, month)
                 THEN <<year, month, day>>
                 ELSE NoDate

\* lines 508-523: one row of the monthly report, on the table t
HistoryRow(t, row) ==
    IF Len(row) < 5 THEN t
    ELSE
    LET date == chinese_date(Strip(row[1]))
        opening == to_decimal(clean(row[2]))
        high == to_decimal(clean(row[3]))
        low == to_decimal(clean(row[4]))
        closing == to_decimal(clean(row[5]))
    IN  IF date = NoDate \/ "invalid" \in {opening.kind, high.kind, low.kind, closing.kind}
        THEN t
        ELSE \* INSERT OR REPLACE INTO twse
             {r \in t : r.date # date}
                 \cup {[date |-> date, open |-> opening, high |-> high, low |-> low,
                        close |-> closing]}

RECURSIVE HistoryRows(_, _)
HistoryRows(t, rows) ==
    IF rows = <<>> THEN t ELSE HistoryRows(HistoryRow(t, Head(rows)), Tail(rows))

T_index == <<"7", ",", "9", "0", "0", ".", "1", "0">>

Histories ==
    { <<>>,
      << <<<<"9", "6", "/", "0", "4", "/", "2", "3">>, T_index, T_index, T_index, T_index>>,
         <<<<"9", "6", "/", "0", "4", "/", "3", "1">>, T_index, T_index, T_index, T_index>>,
         <<<<"9", "6", "/", "0", "4", "/", "2", "4">>, T_index, <<"-", "-">>, T_index, T_index>> >> }

\* what _http_get gives update_monthly_twse_history: an exception, or the rows
HistoryFetches ==
    {[ok |-> FALSE, rows |-> <<>>]} \cup {[ok |-> TRUE, rows |-> h] : h \in Histories}

update_monthly_twse_history(fetch) ==
    /\ CanStart
    /\ calls' = calls + 1
    /\ conn' = TRUE
    /\ IF ~fetch.ok
       THEN UNCHANGED <<db, disk>>
       ELSE /\ db' = [db EXCEPT !.twse = HistoryRows(@, fetch.rows)]
            /\ disk' = db'
    /\ UNCHANGED <<call, run, last>>

(***************************************************************************)
(* close_db: the open transaction is lost with the connection.             *)
(***************************************************************************)
close_db ==
    /\ CanStart
    /\ conn
    /\ conn' = FALSE
    /\ db' = disk
    /\ UNCHANGED <<disk, call, run, last, calls>>

\* the functions of the module, called in any order by a program that imports it
Next ==
    \/ \E date \in Dates, force \in BOOLEAN :
           update_daily_twse_quotes(date, force) /\ UNCHANGED aux
    \/ \E date \in Dates, force \in BOOLEAN :
           update_daily_otc_quotes(date, force) /\ UNCHANGED aux
    \/ \E fetch \in Fetches[call.market] : Attempt(fetch) /\ UNCHANGED aux
    \/ \E now \in Nows : continue_update_quotes(now) /\ UNCHANGED aux
    \/ ContinueStep /\ UNCHANGED aux
    \/ \E fetch \in ListingFetches : stock_future_codes(fetch) /\ UNCHANGED aux
    \/ \E fetch \in HistoryFetches : update_monthly_twse_history(fetch) /\ UNCHANGED aux
    \/ close_db /\ UNCHANGED aux

Spec == Init /\ [][Next]_vars

(***************************************************************************)
(* _http_get, request by request.  A process makes a bounded number of     *)
(* fetches; http.log has, for each, the requests it issued and how it      *)
(* ended, and http.warnings_disabled tells whether                         *)
(* urllib3.disable_warnings has been called, the one thing _http_get       *)
(* changes in the process.                                                 *)
(***************************************************************************)
\* number of fetches of a process
MaxFetches == 3

\* what requests.get followed by raise_for_status does: the response is returned, or
\* requests.exceptions.SSLError is raised, or another exception (a timeout, a refused
\* connection, the HTTPError of a bad status)
RequestOutcomes == {"ok", "ssl", "error"}

\* the requests of one _http_get, first the outcome of the request made in the try,
\* second that of the request made in the except clause if it comes to it
_http_get(first, second) ==
    IF first = "ssl"
    THEN [ok |-> second = "ok",
          requests |-> <<[verify |-> TRUE, outcome |-> first],
                         [verify |-> FALSE, outcome |-> second]>>,
          disable_warnings |-> TRUE]
    ELSE [ok |-> first = "ok",
          requests |-> <<[verify |-> TRUE, outcome |-> first]>>,
          disable_warnings |-> FALSE]

HttpFetch(first, second) ==
    /\ Len(http.log) < MaxFetches
    /\ LET r == _http_get(first, second)
       IN  http' = [warnings_disabled |-> http.warnings_disabled \/ r.disable_warnings,
                    log |-> Append(http.log, [requests |-> r.requests, ok |-> r.ok])]
    /\ UNCHANGED <<db, disk, conn, call, run, last, calls, cli, probe>>

HttpNext == \E first \in RequestOutcomes, second \in RequestOutcomes : HttpFetch(first, second)

HttpSpec == Init /\ [][HttpNext]_vars

(***************************************************************************)
(* The single-day syncs on reports with rows of every sort: well formed,   *)
(* too short, with a text that is no id, no number or no positive number.  *)
(* Each sample row carries, beside its csv fields, what is wrong with it   *)
(* (defect; "none" for a row to be stored), which no operation reads.      *)
(***************************************************************************)
T_2317 == <<"2", "3", "1", "7">>
T_NoNumber == <<"x">>

\* the rows as the fields of a security: what is wrong with it, and its texts
RowFields ==
    { [defect |-> "none", f |-> Good],
      [defect |-> "none", f |-> [Good EXCEPT !.id = T_2317]],
      [defect |-> "short", f |-> Good],
      [defect |-> "id", f |-> [Good EXCEPT !.id = <<"7", "0", "1", "1", "A">>]],
      [defect |-> "id", f |-> [Good EXCEPT !.id = <<"0", "3">>]],
      [defect |-> "volume", f |-> [Good EXCEPT !.volume = T_NoNumber]],
      [defect |-> "volume", f |-> [Good EXCEPT !.volume = <<"0">>]],
      [defect |-> "price", f |-> [Good EXCEPT !.open = <<"-", "-">>]],
      [defect |-> "price", f |-> [Good EXCEPT !.high = T_NoNumber]],
      [defect |-> "price", f |-> [Good EXCEPT !.close = <<"0", ".", "0", "0">>]],
      [defect |-> "price", f |-> [Good EXCEPT !.low = <<"-", "1">>]],
      [defect |-> "price", f |-> [Good EXCEPT !.open = <<"s", "N", "a", "N">>]],
      [defect |-> "turnover", f |-> [Good EXCEPT !.turnover = <<>>]],
      [defect |-> "tickcount", f |-> [Good EXCEPT !.tickcount = T_NoNumber]] }

\* the csv row of a sample: the market's columns, the first ten of them if too short
RowOf(market, x) ==
    LET row == IF market = "TWSE" THEN TwseLayout(x.f) ELSE OtcLayout(x.f)
    IN  IF x.defect = "short" THEN SubSeq(row, 1, 10) ELSE row

\* the name of 2330 in the TWSE report, three characters
T_TSMC == <<"u53F0", "u7A4D", "u96FB">>

\* ["2330","台積電","1000","100","500","600","610","590","605","1.5"]
TenFieldRow ==
    <<T_2330, T_TSMC, <<"1", "0", "0", "0">>, <<"1", "0", "0">>, <<"5", "0", "0">>,
      <<"6", "0", "0">>, <<"6", "1", "0">>, <<"5", "9", "0">>, <<"6", "0", "5">>,
      <<"1", ".", "5">>>>

\* the same row with the column of the sign before the change
ElevenFieldRow == SubSeq(TenFieldRow, 1, 9) \o <<<<"+">>, <<"1", ".", "5">>>>

RowReports == UNION {[1..n -> RowFields] : n \in 0..MaxRows}

\* a report of one csv row
OneRow(market, row) == [ok |-> TRUE, cands |-> Validated(market, <<row>>), rows |-> <<>>]

\* what _http_get gives an attempt: an exception, a report of sample rows (rows has
\* the samples, cands the rows with their validation done), or one of the two rows
RowFetches ==
    [market \in Markets |->
        {[ok |-> FALSE, cands |-> <<>>, rows |-> <<>>]}
            \cup {[ok |-> TRUE,
                   cands |-> [i \in 1..Len(r) |-> Candidate(market, RowOf(market, r[i]))],
                   rows |-> r] : r \in RowReports}
            \cup (IF market = "TWSE"
                  THEN {OneRow(market, TenFieldRow), OneRow(market, ElevenFieldRow)}
                  ELSE {})]

RowNext ==
    \/ update_daily_twse_quotes(QUOTE_EPOCH, FALSE) /\ UNCHANGED aux
    \/ update_daily_otc_quotes(QUOTE_EPOCH, FALSE) /\ UNCHANGED aux
    \/ \E fetch \in RowFetches[call.market] : Attempt(fetch) /\ UNCHANGED aux

RowSpec == Init /\ [][RowNext]_vars

(***************************************************************************)
(* is_id applied to every text over a small alphabet.                      *)
(***************************************************************************)
\* length of the longest text
MaxIdLen == 5

IdAlphabet == {"0", "1", "2", "3", "5", "7", "A"}
IdTexts == UNION {[1..n -> IdAlphabet] : n \in 0..MaxIdLen}

IdInit ==
    /\ db = EmptyDb
    /\ disk = EmptyDb
    /\ conn = FALSE
    /\ call = NoCall
    /\ run = NoRun
    /\ last = Ended("TWSE", QUOTE_EPOCH, FALSE, "none")
    /\ calls = 0
    /\ cli = NoCli
    /\ http = NoHttp
    /\ \E text \in IdTexts : probe = [arg |-> text, ret |-> "none"]

\* the call is_id(probe.arg), its result as Python prints it
IdCall ==
    /\ probe.ret = "none"
    /\ probe' = [probe EXCEPT !.ret = IF is_id(probe.arg) THEN "True" ELSE "False"]
    /\ UNCHANGED <<db, disk, conn, call, run, last, calls, cli, http>>

IdNext == IdCall

IdSpec == IdInit /\ [][IdNext]_vars

(***************************************************************************)
(* main: the command line.  cli.pc is the function main is to call next    *)
(* ("finally" for the finally clause), cli.exit how the try block ended:   *)
(* "0" for return 0, "usage" for SystemExit(_usage()), "raised" for an     *)
(* exception of the operation.  cli.discarded is a history field: whether  *)
(* the close of the connection dropped uncommitted writes.                 *)
(***************************************************************************)
\* sys.argv[1:], the four commands and one example of anything else
Argvs == {"update", "future codes", "quotes update", "twse update", "other"}

\* the first function main calls for argv
FirstPc(argv) ==
    CASE argv \in {"update", "future codes"} -> "stock_future_codes"
      [] argv = "quotes update" -> "continue_update_quotes"
      [] argv = "twse update" -> "update_twse_history"
      [] OTHER -> "finally"

\* the function that follows pc: the next call of update_all, or the end of the try
NextPc(argv, pc) ==
    IF argv = "update" /\ pc = "stock_future_codes" THEN "continue_update_quotes"
    ELSE IF argv = "update" /\ pc = "continue_update_quotes" THEN "update_twse_history"
    ELSE "finally"

\* the operation at pc has returned
Returned(c) ==
    LET next == NextPc(c.argv, c.pc)
    IN  [c EXCEPT !.pc = next, !.exit = IF next = "finally" THEN "0" ELSE @]

\* the operation at pc has raised
Raised(c) == [c EXCEPT !.pc = "finally", !.exit = "raised"]

\* lines 593-605: main begins; an argv that is no command raises SystemExit at once
main(argv) ==
    /\ ~cli.active
    /\ Idle
    /\ cli' = [active |-> TRUE, argv |-> argv, pc |-> FirstPc(argv),
               exit |-> IF FirstPc(argv) = "finally" THEN "usage" ELSE "none",
               discarded |-> FALSE]
    /\ UNCHANGED <<db, disk, conn, call, run, last, calls, http, probe>>

main_stock_future_codes(fetch) ==
    /\ cli.active
    /\ cli.pc = "stock_future_codes"
    /\ stock_future_codes(fetch)
    /\ cli' = IF fetch.ok THEN Returned(cli) ELSE Raised(cli)
    /\ UNCHANGED <<http, probe>>

\* main calls continue_update_quotes, whose loop then runs by ContinueStep and Attempt
main_continue_update_quotes(now) ==
    /\ cli.active
    /\ cli.pc = "continue_update_quotes"
    /\ continue_update_quotes(now)
    /\ cli' = [cli EXCEPT !.pc = "in continue_update_quotes"]
    /\ UNCHANGED <<http, probe>>

\* continue_update_quotes returns, or the exception of a sync leaves it
main_continue_update_quotes_ends ==
    /\ cli.active
    /\ cli.pc = "in continue_update_quotes"
    /\ Idle
    /\ cli' = IF run = NoRun THEN Returned([cli EXCEPT !.pc = "continue_update_quotes"])
              ELSE Raised(cli)
    /\ run' = NoRun
    /\ UNCHANGED <<db, disk, conn, call, last, calls, http, probe>>

\* lines 535-540: one pass of the while of update_twse_history
update_twse_history_month(fetch) ==
    /\ cli.active
    /\ cli.pc = "update_twse_history"
    /\ update_monthly_twse_history(fetch)
    /\ cli' = IF fetch.ok THEN cli ELSE Raised(cli)
    /\ UNCHANGED <<http, probe>>

\* lines 535, 541: the while of update_twse_history finds date > today
update_twse_history_returns ==
    /\ cli.active
    /\ cli.pc = "update_twse_history"
    /\ Idle
    /\ conn' = TRUE
    /\ cli' = Returned(cli)
    /\ UNCHANGED <<db, disk, call, run, last, calls, http, probe>>

\* main_finally closing the connection only when the try block returned
main_finally_SuccessOnly ==
    /\ cli.active
    /\ cli.pc = "finally"
    /\ IF conn /\ cli.exit = "0"
       THEN conn' = FALSE /\ db' = disk
       ELSE UNCHANGED <<conn, db>>
    /\ cli' = [cli EXCEPT !.active = FALSE, !.pc = "none",
                          !.discarded = conn /\ db # disk]
    /\ UNCHANGED <<disk, call, run, last, calls, http, probe>>

\* lines 606-608 and close_db: the finally clause, then main is left
main_finally ==
    /\ cli.active
    /\ cli.pc = "finally"
    /\ IF conn
       THEN conn' = FALSE /\ db' = disk
       ELSE UNCHANGED <<conn, db>>
    /\ cli' = [cli EXCEPT !.active = FALSE, !.pc = "none",
                          !.discarded = conn /\ db # disk]
    /\ UNCHANGED <<disk, call, run, last, calls, http, probe>>

\* the program run from the command line, any number of times
CliNext ==
    \/ \E argv \in Argvs : main(argv)
    \/ \E fetch \in ListingFetches : main_stock_future_codes(fetch)
    \/ \E now \in Nows : main_continue_update_quotes(now)
    \/ cli.active /\ ContinueStep /\ UNCHANGED aux
    \/ \E fetch \in Fetches[call.market] : cli.active /\ Attempt(fetch) /\ UNCHANGED aux
    \/ main_continue_update_quotes_ends
    \/ \E fetch \in HistoryFetches : update_twse_history_month(fetch)
    \/ update_twse_history_returns
    \/ main_finally

CliSpec == Init /\ [][CliNext]_vars

(***************************************************************************)
(* Vocabulary of the properties.                                           *)
(***************************************************************************)
\* the ordinary rows that market's sync wrote for date
DayRows(q, market, date) ==
    {r \in q : r.ID \notin MarkerIds /\ r.by = market /\ r.date = date}

MarkerRow(q, market, date) == CHOOSE r \in q : r.ID = MarketId(market) /\ r.date = date
MarkerStock(s, market) == CHOOSE r \in s : r.ID = MarketId(market)

\* the largest marker date of the market, as the resolver reads it
Watermark(q, market) == NextPending(q, market) - 1

\* this step is the attempt of the sync of (market, date) that commits
SyncCommits(market, date) ==
    /\ call.active
    /\ call.market = market
    /\ call.date = date
    /\ ~call'.active
    /\ last'.outcome = "committed"

\* this step enters the retry loop of a sync
SyncStarts == ~call.active /\ call'.active

(***************************************************************************)
(* C1                                                                      *)
(***************************************************************************)
\* C1: a single-day sync without force, for a (market, date) whose marker row exists,
\* returns at once: it starts no attempt (no fetch) and leaves the tables, committed
\* and uncommitted, as they were; and a sync that committed leaves the marker of its
\* (market, date), so that the same call made again is such a no-op.
C1_ResyncIsNoOp ==
    [][ /\ (last' # last /\ last'.outcome = "noop")
            => /\ HasMarker(db.quote, last'.market, last'.date)
               /\ ~last'.force
               /\ db' = db /\ disk' = disk /\ call' = call
        /\ (SyncStarts /\ ~call'.force)
            => ~HasMarker(db.quote, call'.market, call'.date)
        /\ \A m \in Markets, d \in Dates :
               SyncCommits(m, d) => HasMarker(db'.quote, m, d) /\ HasMarker(disk'.quote, m, d)
      ]_vars

\* a sync was repeated without force on a day it had committed, with rows in the store
C1_Witness ==
    /\ last.outcome = "noop"
    /\ DayRows(disk.quote, last.market, last.date) # {}
    /\ HasMarker(disk.quote, last.market, last.date)

(***************************************************************************)
(* C2                                                                      *)
(***************************************************************************)
\* C2: the committed store holds, of every (market, date), the complete day with its
\* marker or nothing of that day: no row that a sync wrote is committed without the
\* marker of that sync's (market, date).
C2_AllOrNothing ==
    \A r \in disk.quote :
        r.ID \notin MarkerIds => HasMarker(disk.quote, r.by, r.date)

(***************************************************************************)
(* C3                                                                      *)
(***************************************************************************)
\* C3: when a sync of (market, date) commits, the committed marker's volume is the
\* number of rows that market's sync has in the committed store for that date: the
\* rows counted by the committing attempt are there and no others.
C3_MarkerCountsDay ==
    [][\A m \in Markets, d \in Dates :
          SyncCommits(m, d)
            => /\ HasMarker(disk'.quote, m, d)
               /\ MarkerRow(disk'.quote, m, d).volume.val
                      = Cardinality(DayRows(disk'.quote, m, d))]_vars

(***************************************************************************)
(* C4                                                                      *)
(***************************************************************************)
\* C4 (as claimed): after every successful sync of (market, date), whatever the date,
\* the marker security's maxdate and the resolver's maximum marker date both equal the
\* date, and neither is lower than it was before.
C4_Original ==
    [][\A m \in Markets, d \in Dates :
          SyncCommits(m, d)
            => /\ MarkerStock(db'.stock, m).maxdate = d
               /\ Watermark(db'.quote, m) = d
               /\ Watermark(db'.quote, m) >= Watermark(db.quote, m)
               /\ StockKeyTaken(db.stock, MarketId(m))
                    => MarkerStock(db'.stock, m).maxdate >= MarkerStock(db.stock, m).maxdate
      ]_vars

\* C4 (amended): after a successful sync of (market, date) whose date is not earlier
\* than any marker date of the market, the marker security's maxdate and the resolver's
\* maximum marker date both equal the date, which is not lower than the maximum before.
C4_WatermarkFollowsAscendingSync ==
    [][\A m \in Markets, d \in Dates :
          (SyncCommits(m, d) /\ d >= Watermark(db.quote, m))
            => /\ MarkerStock(db'.stock, m).maxdate = d
               /\ Watermark(db'.quote, m) = d
               /\ Watermark(db'.quote, m) >= Watermark(db.quote, m)]_vars

\* a second sync of a market, for the day after the first, has committed
C4_Witness ==
    /\ last.outcome = "committed"
    /\ last.date = QUOTE_EPOCH + 1
    /\ HasMarker(db.quote, last.market, QUOTE_EPOCH)
    /\ Watermark(db.quote, last.market) = QUOTE_EPOCH + 1
    /\ MarkerStock(db.stock, last.market).mindate = QUOTE_EPOCH

(***************************************************************************)
(* C5                                                                      *)
(***************************************************************************)
\* every marker row has the marker rows of all dates from QUOTE_EPOCH to its own
GapFree(q) ==
    \A r \in q :
        r.ID \in MarkerIds
            => \A d \in QUOTE_EPOCH..r.date : QuoteKeyTaken(q, r.ID, d)

\* C5 (as claimed): in every committed state a marker at a date implies the markers
\* of the same market at every date from QUOTE_EPOCH to that date.
C5_Original == GapFree(disk.quote)

\* this step belongs to a single-day sync called directly, not by continue_update_quotes
DirectSyncStep == ~run.active /\ (call.active \/ call'.active)

\* C5 (amended): continue_update_quotes keeps the markers gap-free: every step other
\* than one of a directly called single-day sync, taken where the markers are gap-free
\* (in the connection's view and in the committed store), leaves them gap-free.
C5_RunsKeepGapFree ==
    [][(~DirectSyncStep /\ GapFree(db.quote) /\ GapFree(disk.quote))
          => (GapFree(db'.quote) /\ GapFree(disk'.quote))]_vars

\* a run has committed a market's second day
C5_Witness ==
    /\ run.active
    /\ last.outcome = "committed"
    /\ calls = MaxCalls
    /\ HasMarker(disk.quote, "TWSE", QUOTE_EPOCH + 1)
    /\ GapFree(disk.quote)

(***************************************************************************)
(* C6                                                                      *)
(***************************************************************************)
UniqueKeys(q) == \A r1, r2 \in q : (r1.ID = r2.ID /\ r1.date = r2.date) => r1 = r2

\* a candidate of the report meets a row of its (ID, date) in the table, or of an
\* earlier candidate of the same report
Collides(q, cands, date) ==
    \E i \in 1..Len(cands) :
        /\ cands[i].kind = "row"
        /\ \/ QuoteKeyTaken(q, cands[i].ID, date)
           \/ \E j \in 1..(i - 1) : cands[j].kind = "row" /\ cands[j].ID = cands[i].ID

\* C6: the quote table holds at most one row per (ID, date), and an attempt whose
\* report would insert a second row for an (ID, date) fails: no attempt overwrites a
\* row, an attempt that commits had no such candidate in its report, and an attempt
\* that fails commits nothing and leaves every row that was in the table.
C6_UniqueQuoteKey ==
    /\ [](UniqueKeys(db.quote) /\ UniqueKeys(disk.quote))
    /\ [][call.active
            => /\ \A r \in db.quote :
                      QuoteKeyTaken(db'.quote, r.ID, r.date) => r \in db'.quote
               /\ IF call'.active \/ last'.outcome # "committed"
                  THEN disk' = disk /\ db.quote \subseteq db'.quote
                  ELSE \A fetch \in Fetches[call.market] :
                           Attempt(fetch)
                             => ~Collides(db.quote, fetch.cands, call.date)]_vars

\* a sync has raised after an insert met a taken key, its earlier insert still there
C6_Witness ==
    /\ last.outcome = "raised"
    /\ ~call.active
    /\ db.quote # disk.quote
    /\ \E r \in db.quote : r.ID \notin MarkerIds /\ r \notin disk.quote

(***************************************************************************)
(* C7                                                                      *)
(***************************************************************************)
\* C7: a forced sync of (market, date) that commits leaves, of the rows that market's
\* syncs wrote for the date, exactly the rows of the new report (as many as the marker
\* counts), and a sync deletes no row of another date or of the other market's sync.
C7_ForceReplaces ==
    [][ /\ \A m \in Markets, d \in Dates :
               (SyncCommits(m, d) /\ call.force /\ call.retry = 0)
                 => Cardinality(DayRows(db'.quote, m, d))
                        = MarkerRow(db'.quote, m, d).volume.val
        /\ conn'
            => \A r \in db.quote \ db'.quote :
                   /\ SyncStarts
                   /\ call'.force
                   /\ r.date = call'.date
                   /\ r.by = call'.market ]_vars

(***************************************************************************)
(* C8                                                                      *)
(***************************************************************************)
\* C8: a successful sync leaves the maxdate of every security at least what it was.
C8_MaxdateNeverBackward ==
    [][\A m \in Markets, d \in Dates :
          SyncCommits(m, d)
            => \A s \in db.stock, t \in db'.stock :
                   s.ID = t.ID => t.maxdate >= s.maxdate]_vars

(***************************************************************************)
(* C9                                                                      *)
(***************************************************************************)
\* C9: every row of the stock table has mindate <= maxdate.
C9_MindateLeqMaxdate ==
    \A s \in db.stock \cup disk.stock : s.mindate <= s.maxdate

(***************************************************************************)
(* C10                                                                     *)
(***************************************************************************)
StrictlyPositive(d) == d.kind = "num" /\ ~d.neg /\ d.coef > 0

\* C10: every ordinary row of the quote table has open, high, low and close strictly
\* positive and a strictly positive volume.
C10_StoredRowsPositive ==
    \A r \in db.quote \cup disk.quote :
        r.ID \notin MarkerIds
            => /\ StrictlyPositive(r.open)
               /\ StrictlyPositive(r.high)
               /\ StrictlyPositive(r.low)
               /\ StrictlyPositive(r.close)
               /\ ~r.volume.null
               /\ r.volume.val > 0

(***************************************************************************)
(* C11                                                                     *)
(***************************************************************************)
\* C11: a single-day sync makes at most 3 attempts, each with one fetch: its retry
\* counter starts at 0 and never exceeds 2, and every attempt either commits and ends
\* the call, or raises at retry 0 or 1 and is followed by the next attempt (nothing
\* committed, the call still running), or raises at retry 2 and ends the call with
\* the exception handed to the caller.
C11_BoundedRetry ==
    /\ [](call.active => call.retry \in 0..2)
    /\ [][ /\ SyncStarts => call'.retry = 0
           /\ call.active
                => \/ /\ ~call'.active
                      /\ last' = Ended(call.market, call.date, call.force, "committed")
                   \/ /\ call.retry < 2
                      /\ call' = [call EXCEPT !.retry = @ + 1]
                      /\ last' = last
                      /\ disk' = disk
                   \/ /\ call.retry = 2
                      /\ ~call'.active
                      /\ last' = Ended(call.market, call.date, call.force, "raised")
                      /\ disk' = disk ]_vars

\* two attempts of a sync have raised, leaving a row, and the third is to come
C11_Witness ==
    /\ call.active
    /\ call.retry = 2
    /\ db.quote # disk.quote

(***************************************************************************)
(* C12                                                                     *)
(***************************************************************************)
\* C12: when the sync of (market, date) called by a continue_update_quotes run fails
\* its third attempt, the run is left at that date: the loop is no longer running, so
\* no later sync of the run is started, nothing is committed, and the connection sees
\* no marker of (market, date); a sync that starts while no run is active is not the
\* loop's and leaves the halted run as it is.
C12_NoSkipAndContinue ==
    [][ /\ (run.active /\ call.active /\ ~call'.active /\ last'.outcome = "raised")
            => /\ run' = [run EXCEPT !.active = FALSE]
               /\ disk' = disk
               /\ ~HasMarker(db'.quote, call.market, call.date)
        /\ ~run.active => ~ENABLED (ContinueStep /\ UNCHANGED aux)
        /\ (~run.active /\ SyncStarts) => run' = run ]_vars

\* a run from the empty store was halted by the third failure of its first sync, with
\* the other market's sync of that date and the later dates still to do
C12_Witness ==
    /\ ~run.active
    /\ run # NoRun
    /\ calls = 1
    /\ last = Ended("TWSE", QUOTE_EPOCH, FALSE, "raised")
    /\ run.current = QUOTE_EPOCH
    /\ run.step = "OTC"
    /\ run.today > run.current
    /\ \A m \in Markets : ~HasMarker(db.quote, m, QUOTE_EPOCH)

(***************************************************************************)
(* C13                                                                     *)
(***************************************************************************)
\* the market's next-pending date that the run resolved when it started
RunFrom(r, market) == IF market = "TWSE" THEN r.twse_from ELSE r.otc_from

\* C13: in a continue_update_quotes run, the sync of a market is called for the
\* run's current date exactly when that date is at or after the market's next-pending
\* date; the date is then the day after the market's latest marker (so the dates of a
\* market start at its next-pending date and go up one day at a time), and the
\* markers of all the market's earlier dates of the run are committed; the loop goes
\* from TWSE to OTC on the same date and from OTC to TWSE on the next date.
C13_RunOrdering ==
    [][(run.active /\ ~call.active /\ run.current <= run.today)
          => /\ (run.current >= RunFrom(run, run.step)) <=> SyncStarts
             /\ last' = last
             /\ SyncStarts
                  => /\ call'.market = run.step
                     /\ call'.date = run.current
                     /\ ~call'.force
                     /\ NextPending(db.quote, call'.market) = call'.date
                     /\ \A d \in RunFrom(run, run.step)..(call'.date - 1) :
                            HasMarker(disk.quote, call'.market, d)
             /\ run' = IF run.step = "TWSE" THEN [run EXCEPT !.step = "OTC"]
                       ELSE [run EXCEPT !.step = "TWSE", !.current = @ + 1] ]_vars

\* a run that began at QUOTE_EPOCH has committed TWSE's first day and called
\* TWSE's sync for the second
C13_Witness ==
    /\ run.active
    /\ run.twse_from = QUOTE_EPOCH
    /\ call.active
    /\ call.market = "TWSE"
    /\ call.date = QUOTE_EPOCH + 1
    /\ HasMarker(disk.quote, "TWSE", QUOTE_EPOCH)

(***************************************************************************)
(* C14                                                                     *)
(***************************************************************************)
\* the dates of the marker rows of market in the table q
MarkerDates(q, market) == {r.date : r \in {x \in q : x.ID = MarketId(market)}}

\* C14: the next-pending date that continue_update_quotes resolves for a market is
\* QUOTE_EPOCH when the quote table has no marker row of the market, and otherwise the
\* day after the latest date that has one; resolving it writes nothing.
C14_WatermarkResolution ==
    [][(~run.active /\ run'.active)
          => /\ \A m \in Markets :
                    IF MarkerDates(db.quote, m) = {}
                    THEN RunFrom(run', m) = QUOTE_EPOCH
                    ELSE /\ RunFrom(run', m) - 1 \in MarkerDates(db.quote, m)
                         /\ \A d \in MarkerDates(db.quote, m) : d < RunFrom(run', m)
             /\ db' = db
             /\ disk' = disk ]_vars

\* a run has started with a marker of TWSE at QUOTE_EPOCH and no marker of OTC
C14_Witness ==
    /\ run.active
    /\ ~call.active
    /\ run.step = "TWSE"
    /\ run.current = QUOTE_EPOCH
    /\ run.twse_from = QUOTE_EPOCH + 1
    /\ run.otc_from = QUOTE_EPOCH
    /\ MarkerDates(db.quote, "TWSE") = {QUOTE_EPOCH}
    /\ MarkerDates(db.quote, "OTC") = {}

(***************************************************************************)
(* C15                                                                     *)
(***************************************************************************)
\* the while of continue_update_quotes finds its condition false and returns
RunReturns == run.active /\ ~call.active /\ run.current > run.today /\ ~run'.active

\* the cutoff day: the current date from 15:00 on, the day before until then
Cutoff(now) == IF now.hour >= 15 THEN now.day ELSE now.day - 1

\* C15 (as claimed): when a continue_update_quotes run returns, the watermark of each
\* market is the cutoff day.
C15_Original ==
    [][RunReturns => \A m \in Markets : Watermark(db.quote, m) = run.today]_vars

\* C15 (amended): a run works up to the cutoff day and no further: it resolves today
\* as the cutoff day, calls no sync for a later date, and each step of its loop moves
\* it on (to the other market, or to the next date), so that it returns once every
\* sync has committed; when it returns, every date from a market's next-pending date
\* to the cutoff day has that market's marker, committed, and the market's watermark
\* is the cutoff day, or what it was when the run started if that was later.
C15_ReachesCutoff ==
    [][ /\ \A now \in Nows : continue_update_quotes(now) /\ run'.active
               => run'.today = Cutoff(now)
        /\ (run.active /\ SyncStarts) => call'.date <= run.today
        /\ (run.active /\ ~call.active /\ run'.active)
            => /\ run'.today = run.today
               /\ 2 * run'.current + (IF run'.step = "OTC" THEN 1 ELSE 0)
                      > 2 * run.current + (IF run.step = "OTC" THEN 1 ELSE 0)
        /\ RunReturns
            => /\ run.current = run.today + 1
               /\ \A m \in Markets :
                      /\ \A d \in RunFrom(run, m)..run.today :
                             HasMarker(db.quote, m, d) /\ HasMarker(disk.quote, m, d)
                      /\ Watermark(db.quote, m)
                             = Max({run.today, RunFrom(run, m) - 1}) ]_vars

\* a run that began at QUOTE_EPOCH has committed the first day of both markets, which
\* is its cutoff day, and is about to return
C15_Witness ==
    /\ run.active
    /\ ~call.active
    /\ run.today = QUOTE_EPOCH
    /\ run.current = QUOTE_EPOCH + 1
    /\ run.twse_from = QUOTE_EPOCH
    /\ run.otc_from = QUOTE_EPOCH
    /\ \A m \in Markets : HasMarker(disk.quote, m, QUOTE_EPOCH)

(***************************************************************************)
(* C16                                                                     *)
(***************************************************************************)
\* the fetch made the unverified request of the except clause
FellBack(f) == \E i \in 1..Len(f.requests) : ~f.requests[i].verify

\* C16: once a fetch of the process has fallen back to an unverified request, every
\* later fetch issues its first request unverified; and a fetch falls back at most
\* once, a failure of its unverified request being its own failure.
C16_StickyFallback ==
    /\ \A i \in 1..Len(http.log), j \in 1..Len(http.log) :
           (i < j /\ FellBack(http.log[i])) => ~http.log[j].requests[1].verify
    /\ \A i \in 1..Len(http.log) :
           LET f == http.log[i]
           IN  /\ Cardinality({k \in 1..Len(f.requests) : ~f.requests[k].verify}) <= 1
               /\ f.ok <=> f.requests[Len(f.requests)].outcome = "ok"

(***************************************************************************)
(* C17                                                                     *)
(***************************************************************************)
\* the positions of the rows of a report that have no defect
ValidRows(fetch) == {i \in 1..Len(fetch.rows) : fetch.rows[i].defect = "none"}

\* C17: an attempt on a report of rows of which some are too short or have a text
\* that is no id, no number or no positive number, made where the store has no row of
\* the keys of the report's valid rows (each security once), commits: it does not
\* raise, the day has exactly the valid rows, and the marker counts them.
C17_RowErrorsRecovered ==
    [][call.active
          => \A fetch \in RowFetches[call.market] :
                 ( /\ fetch.rows # <<>>
                   /\ Attempt(fetch)
                   /\ \A i \in ValidRows(fetch) :
                          /\ ~QuoteKeyTaken(db.quote, fetch.rows[i].f.id, call.date)
                          /\ \A j \in ValidRows(fetch) :
                                 fetch.rows[i].f.id = fetch.rows[j].f.id => i = j )
                 => /\ ~call'.active
                    /\ last'.outcome = "committed"
                    /\ {r.ID : r \in db'.quote \ db.quote} \ MarkerIds
                           = {fetch.rows[i].f.id : i \in ValidRows(fetch)}
                    /\ MarkerRow(db'.quote, call.market, call.date).volume.val
                           = Cardinality(ValidRows(fetch)) ]_vars

(***************************************************************************)
(* C18                                                                     *)
(***************************************************************************)
\* the decimal 1.5
T_OnePointFive == [kind |-> "num", neg |-> FALSE, coef |-> 15, scale |-> 1]

\* the row that the TWSE sync stores for 2330 from the texts of the claim's row
StoredOf2330(date) ==
    [ID |-> T_2330, date |-> date, volume |-> IntOf(1000), turnover |-> IntOf(500),
     open |-> [kind |-> "num", neg |-> FALSE, coef |-> 600, scale |-> 0],
     high |-> [kind |-> "num", neg |-> FALSE, coef |-> 610, scale |-> 0],
     low |-> [kind |-> "num", neg |-> FALSE, coef |-> 590, scale |-> 0],
     close |-> [kind |-> "num", neg |-> FALSE, coef |-> 605, scale |-> 0],
     delta |-> T_OnePointFive, tickcount |-> IntOf(100), by |-> "TWSE"]

\* C18 (as claimed): the TWSE attempt whose report is the 10-field row, where no row
\* of 2330 is in the way, inserts a quote row of 2330 with delta 1.5 and counts it.
C18_Original ==
    [][(call.active /\ call.market = "TWSE"
            /\ ~QuoteKeyTaken(db.quote, T_2330, call.date)
            /\ Attempt(OneRow("TWSE", TenFieldRow)))
          => /\ StoredOf2330(call.date) \in db'.quote
             /\ MarkerRow(db'.quote, "TWSE", call.date).volume.val = 1 ]_vars

\* C18 (amended): the row is accepted when it has the 11 fields of the report, the
\* sign of the change in the tenth and 1.5 in the eleventh: the attempt inserts the
\* quote row of 2330 with delta 1.5 and the marker counts 1; the 10-field row is
\* skipped for its length: the attempt commits the marker with count 0 and no row.
C18_ElevenFieldRowAccepted ==
    [][(call.active /\ call.market = "TWSE"
            /\ ~QuoteKeyTaken(db.quote, T_2330, call.date))
          => /\ Attempt(OneRow("TWSE", ElevenFieldRow))
                 => /\ last'.outcome = "committed"
                    /\ StoredOf2330(call.date) \in db'.quote
                    /\ MarkerRow(db'.quote, "TWSE", call.date).volume.val = 1
             /\ Attempt(OneRow("TWSE", TenFieldRow))
                 => /\ last'.outcome = "committed"
                    /\ {r \in db'.quote : r.ID \notin MarkerIds} = 
                           {r \in db.quote : r.ID \notin MarkerIds}
                    /\ MarkerRow(db'.quote, "TWSE", call.date).volume.val = 0 ]_vars

\* the TWSE sync has committed the 11-field row, alone in its day
C18_Witness ==
    /\ last = Ended("TWSE", QUOTE_EPOCH, FALSE, "committed")
    /\ DayRows(disk.quote, "TWSE", QUOTE_EPOCH) = {StoredOf2330(QUOTE_EPOCH)}
    /\ MarkerRow(disk.quote, "TWSE", QUOTE_EPOCH).volume.val = 1

(***************************************************************************)
(* C19                                                                     *)
(***************************************************************************)
UpperLetters == {"A", "B", "C", "D", "E", "F", "G", "H", "I", "J", "K", "L", "M",
                 "N", "O", "P", "Q", "R", "S", "T", "U", "V", "W", "X", "Y", "Z"}

\* 4 digits with an optional trailing uppercase letter
FourDigitId(text) ==
    /\ Len(text) \in {4, 5}
    /\ \A i \in 1..4 : text[i] \in Digits
    /\ Len(text) = 5 => text[5] \in UpperLetters

\* a longer numeric id beginning 00, 01 or 02
LongNumericId(text) ==
    /\ Len(text) > 4
    /\ \A i \in 1..Len(text) : text[i] \in Digits
    /\ text[1] = "0"
    /\ text[2] \in {"0", "1", "2"}

\* C19: is_id accepts a text only if it is 4 digits with an optional trailing
\* uppercase letter or a longer numeric id beginning 00, 01 or 02; it rejects a text
\* longer than 4 characters that starts with 7, and accepts a text starting with 0
\* only when it starts with 00, 01 or 02; it accepts 2330 and 00050 and rejects 7011A
\* and 03.
C19_IdShape ==
    probe.ret # "none"
        => /\ probe.ret = "True" => (FourDigitId(probe.arg) \/ LongNumericId(probe.arg))
           /\ (Len(probe.arg) > 4 /\ probe.arg[1] = "7") => probe.ret = "False"
           /\ (probe.ret = "True" /\ probe.arg[1] = "0") => probe.arg[2] \in {"0", "1", "2"}
           /\ probe.arg \in {T_2330, <<"0", "0", "0", "5", "0">>} => probe.ret = "True"
           /\ probe.arg \in {<<"7", "0", "1", "1", "A">>, <<"0", "3">>} => probe.ret = "False"

(***************************************************************************)
(* C20                                                                     *)
(***************************************************************************)
\* C20: whenever main is left, by return 0, by the exception of an operation or by
\* the SystemExit of an argv that is no command, the connection is closed (_DB_CONN is
\* None) and the store is what was committed, uncommitted writes being dropped; an
\* argv that is no command goes to the usage exit without any operation: no sync, no
\* fetch, no write; and between two runs of main no connection is open.
C20_CliClosesConnection ==
    /\ [](~cli.active => (~conn /\ db = disk))
    /\ [][ /\ (cli.active /\ ~cli'.active)
               => /\ ~conn'
                  /\ db' = disk
                  /\ disk' = disk
                  /\ cli'.exit \in {"0", "usage", "raised"}
           /\ cli'.argv = "other"
               => /\ ~call'.active
                  /\ ~run'.active
                  /\ db' = db /\ disk' = disk /\ calls' = calls /\ last' = last
                  /\ cli'.exit = "usage" ]_vars

\* a quotes update whose sync raised, after an attempt had inserted a row, has been
\* left with the connection closed and that row dropped
C20_Witness ==
    /\ ~cli.active
    /\ cli.argv = "quotes update"
    /\ cli.exit = "raised"
    /\ cli.discarded
    /\ last.outcome = "raised"
    /\ ~conn
    /\ db = disk

(***************************************************************************)
(* C21                                                                     *)
(***************************************************************************)
\* C21: an attempt of a single-day sync that raises leaves the store, as the
\* connection sees it, as it was when the attempt began, so that every attempt of the
\* call starts from the state the first one started from.
C21_RetryAsOneUnit ==
    [][(call.active /\ (call'.active \/ last'.outcome = "raised")) => db' = db]_vars

(***************************************************************************)
(* C22                                                                     *)
(***************************************************************************)
\* C22: a continue_update_quotes that finds the next-pending dates of both markets
\* after the cutoff day starts no loop and no sync and writes nothing; and in a run,
\* a sync is started only for a market whose next-pending date is not after the
\* cutoff day, for a date after that market's latest marker, the run calls no sync
\* that returns at once for a day already marked, and the quote rows an attempt adds
\* are those of the market being synced, none being removed.
C22_RunLevelNoOp ==
    [][ /\ \A now \in Nows :
               ( /\ continue_update_quotes(now)
                 /\ \A m \in Markets : NextPending(db.quote, m) > Cutoff(now) )
               => /\ ~run'.active
                  /\ ~call'.active
                  /\ db' = db
                  /\ disk' = disk
                  /\ last' = last
        /\ (run.active /\ ~call.active) => last' = last
        /\ (run.active /\ SyncStarts)
               => /\ RunFrom(run, call'.market) <= run.today
                  /\ call'.date > Watermark(db.quote, call'.market)
                  /\ db' = db
        /\ (run.active /\ call.active)
               => /\ db.quote \subseteq db'.quote
                  /\ \A r \in db'.quote \ db.quote : r.by = call.market ]_vars

\* a run started with TWSE at the cutoff day and OTC behind has committed OTC's day,
\* TWSE's marker being the one written before the run
C22_Witness ==
    /\ run.active
    /\ ~call.active
    /\ run.twse_from > run.today
    /\ run.otc_from <= run.today
    /\ last = Ended("OTC", run.otc_from, FALSE, "committed")
    /\ HasMarker(disk.quote, "OTC", run.otc_from)
    /\ Watermark(disk.quote, "TWSE") = run.twse_from - 1

====
